---- MODULE Spec2Model ----
(***************************************************************************)
(* Task Caller (src/server.js): the voice dialog driven by telephony       *)
(* webhooks, the single process-wide pending-draft slot                    *)
(* (app.locals.pendingTask), the task sheet, the extraction client and the *)
(* due-task filter.                                                        *)
(*                                                                         *)
(* A call is modelled by the TwiML document the telephony gateway is       *)
(* executing for it: each route handler is one action that consumes the    *)
(* turn's input and replaces the document by its response.  A request is   *)
(* served in one step: the gateway sends a call's next request only after  *)
(* the response to its previous one, so the awaits inside a handler (the   *)
(* extraction service, the sheet) are not interleaved with other requests  *)
(* of the same call.  A handler still awaiting after its caller hung up    *)
(* is not modelled.                                                        *)
(*                                                                         *)
(* Spec is the dialog with calls one at a time, SpecTwoCalls the speech    *)
(* dialog with two calls at once, SpecDue the due-task filter and its two  *)
(* callers over sheets typed by hand, SpecExtract the extraction client    *)
(* over the replies of the service.                                        *)
(***************************************************************************)
EXTENDS Integers, Sequences, FiniteSets, TLC

VARIABLES
    pendingTask,   \* app.locals.pendingTask: <<>> (null/undefined) or <<draft>>
    sheet,         \* rows of the Tasks tab from row 2 on, in order
    now,           \* the wall clock, in ticks
    doc,           \* per call: the TwiML verbs the gateway still has to execute
    heard,         \* per call: the draft last read back to the caller, <<>> if none
    transcribing,  \* recordings whose transcription has not been delivered yet
    overlap,       \* whether the gateway lets two calls be active at once
    last           \* the request the latest step served: route, input, response, effects

vars == <<pendingTask, sheet, now, doc, heard, transcribing, overlap, last>>

----------------------------------------------------------------------------
(* Bounds of the model *)

\* rows the sheet can hold before every further append is refused
MaxRows == 2
\* tokens in a reply of the extraction service
MaxReplyLen == 3
\* last tick of the clock
MaxClock == 2
\* recordings waiting for their transcription at one time
MaxTranscribing == 1

\* ticks in a calendar day (the granularity of the clock)
TicksPerDay == 2

Calls == {"A", "B"}

----------------------------------------------------------------------------
(* Rows, drafts and dates *)

\* a parsed JSON object of the extraction service; "" stands for an absent field
Obj(e, t, p, s, d) == [error |-> e, task |-> t, priority |-> p, status |-> s, dueDate |-> d]

DraftA == Obj("", "Finish Q3 report", "High", "Not Started", "2025-02-10")
DraftB == Obj("", "Review PRs", "Low", "Not Started", "2025-02-09")
ErrorObj == Obj("Could not understand task", "", "", "", "")
EmptyObj == Obj("", "", "", "", "")

\* the values written by values.append: [[task, priority, status, dueDate]]
Row(t, p, s, d) == <<t, p, s, d>>

\* the calendar days the model knows, day 0 first; any other string is no date
DayNames == <<"2025-02-08", "2025-02-09", "2025-02-10", "2025-02-11",
              "2025-02-12", "2025-02-13", "2025-02-14", "2025-02-15">>

NaN == -1

\* a parse that reads a day as its last tick instead of its midnight
DateParseEndOfDay(str) ==
    IF \E i \in 1..Len(DayNames) : DayNames[i] = str
    THEN (CHOOSE i \in 1..Len(DayNames) : DayNames[i] = str) * TicksPerDay - 1
    ELSE NaN

\* new Date(str).getTime(): midnight of the day, NaN when the string is no date
DateParse(str) ==
    IF \E i \in 1..Len(DayNames) : DayNames[i] = str
    THEN (CHOOSE i \in 1..Len(DayNames) : DayNames[i] = str) * TicksPerDay - TicksPerDay
    ELSE NaN

\* String.prototype.toLowerCase on the strings of the model
ToLowerCase(str) ==
    CASE str = "Completed" -> "completed"
      [] str = "COMPLETED" -> "completed"
      [] str = "Done" -> "done"
      [] str = "DONE" -> "done"
      [] str = "Not Started" -> "not started"
      [] str = "In Progress" -> "in progress"
      [] str = "High" -> "high"
      [] str = "HIGH" -> "high"
      [] str = "Medium" -> "medium"
      [] str = "Low" -> "low"
      [] str = "LOW" -> "low"
      [] str = "Urgent" -> "urgent"
      [] OTHER -> str

\* row[i] of a row that may lack trailing columns ("" is falsy like undefined)
Cell(row, i) == IF i <= Len(row) THEN row[i] ELSE ""

\* a || b on strings
OrElse(a, b) == IF a = "" THEN b ELSE a

----------------------------------------------------------------------------
(* Google Sheets helpers *)

\* a readTasks that gives the rows whether or not the read succeeded
readTasksIgnoresFailure(rows, readOk) ==
    [i \in 1..Len(rows) |->
        [rowIndex |-> i + 1,
         task |-> OrElse(Cell(rows[i], 1), ""),
         priority |-> OrElse(Cell(rows[i], 2), "Medium"),
         status |-> OrElse(Cell(rows[i], 3), "Not Started"),
         dueDate |-> OrElse(Cell(rows[i], 4), "")]]

\* readTasks: the rows as task records with defaults; [] when the read fails
readTasks(rows, readOk) ==
    IF readOk
    THEN [i \in 1..Len(rows) |->
            [rowIndex |-> i + 1,
             task |-> OrElse(Cell(rows[i], 1), ""),
             priority |-> OrElse(Cell(rows[i], 2), "Medium"),
             status |-> OrElse(Cell(rows[i], 3), "Not Started"),
             dueDate |-> OrElse(Cell(rows[i], 4), "")]]
    ELSE <<>>

\* a filter that compares the status as it is written in the sheet
IsUpcomingCaseSensitive(t, clock, cutoff) ==
    IF t.status = "completed" \/ t.status = "done"
    THEN FALSE
    ELSE IF t.dueDate = ""
    THEN FALSE
    ELSE LET due == DateParse(t.dueDate)
         IN  due # NaN /\ due >= clock /\ due <= cutoff

\* a filter that keeps a task whose due date is missing or is no date
IsUpcomingKeepsUndated(t, clock, cutoff) ==
    IF ToLowerCase(t.status) = "completed" \/ ToLowerCase(t.status) = "done"
    THEN FALSE
    ELSE LET due == DateParse(t.dueDate)
         IN  due = NaN \/ (due >= clock /\ due <= cutoff)

\* a filter whose window is open at both ends
IsUpcomingOpenWindow(t, clock, cutoff) ==
    IF ToLowerCase(t.status) = "completed" \/ ToLowerCase(t.status) = "done"
    THEN FALSE
    ELSE IF t.dueDate = ""
    THEN FALSE
    ELSE LET due == DateParse(t.dueDate)
         IN  due # NaN /\ due > clock /\ due < cutoff

\* the filter callback of getUpcomingTasks
IsUpcoming(t, clock, cutoff) ==
    IF ToLowerCase(t.status) = "completed" \/ ToLowerCase(t.status) = "done"
    THEN FALSE
    ELSE IF t.dueDate = ""
    THEN FALSE
    ELSE LET due == DateParse(t.dueDate)
         IN  due # NaN /\ due >= clock /\ due <= cutoff

\* priorityOrder[p.toLowerCase()] ?? 1
PriorityRank(p) ==
    CASE ToLowerCase(p) = "high" -> 0
      [] ToLowerCase(p) = "medium" -> 1
      [] ToLowerCase(p) = "low" -> 2
      [] OTHER -> 1

\* a comparator that orders by due date alone
CompareTasksByDate(a, b) == DateParse(a.dueDate) - DateParse(b.dueDate)

\* the sort comparator of getUpcomingTasks (negative: a first)
CompareTasks(a, b) ==
    IF PriorityRank(a.priority) # PriorityRank(b.priority)
    THEN PriorityRank(a.priority) - PriorityRank(b.priority)
    ELSE DateParse(a.dueDate) - DateParse(b.dueDate)

RECURSIVE FilterSeq(_, _, _)
FilterSeq(ts, clock, cutoff) ==
    IF ts = <<>> THEN <<>>
    ELSE IF IsUpcoming(Head(ts), clock, cutoff)
         THEN <<Head(ts)>> \o FilterSeq(Tail(ts), clock, cutoff)
         ELSE FilterSeq(Tail(ts), clock, cutoff)

\* stable insertion of t into the sorted sequence ts
RECURSIVE InsertSorted(_, _)
InsertSorted(ts, t) ==
    IF ts = <<>> THEN <<t>>
    ELSE IF CompareTasks(Head(ts), t) <= 0
         THEN <<Head(ts)>> \o InsertSorted(Tail(ts), t)
         ELSE <<t>> \o ts

\* Array.prototype.sort with CompareTasks (stable)
RECURSIVE SortTasks(_)
SortTasks(ts) ==
    IF ts = <<>> THEN <<>>
    ELSE InsertSorted(SortTasks(SubSeq(ts, 1, Len(ts) - 1)), ts[Len(ts)])

\* getUpcomingTasks(days) over the rows read at instant clock
getUpcomingTasks(rows, readOk, days, clock) ==
    SortTasks(FilterSeq(readTasks(rows, readOk), clock, clock + days * TicksPerDay))

\* the default window of getUpcomingTasks and the window of both callers
WindowDays == 5

\* addTask: the sheet after values.append of the draft; unchanged when it fails
addTask(rows, t, writeOk) ==
    IF writeOk THEN Append(rows, Row(t.task, t.priority, t.status, t.dueDate)) ELSE rows

----------------------------------------------------------------------------
(* Caller input: keypad digits and speech, as sequences of characters *)

\* req.body.Digits of a one-digit gather; "" when the turn carries no digit
Digits == {"", "1", "2", "9"}

\* req.body.SpeechResult; <<>> when the turn carries no speech
SayYes == <<"Y", "e", "s">>
SayConfirm == <<"c", "o", "n", "f", "i", "r", "m">>
SayNo == <<"N", "o">>
SayCancel == <<"c", "a", "n", "c", "e", "l">>
SayKnow == <<"k", "n", "o", "w">>
SaySave == <<"s", "a", "v", "e">>
SayYesNo == <<"y", "e", "s", " ", "n", "o">>
Utterances == {<<>>, SayYes, SayConfirm, SayNo, SayCancel, SayKnow, SaySave, SayYesNo}

\* a turn a gather posts to its action: the caller pressed a key or said something
Turns == [digit : Digits \ {""}, speech : {<<>>}]
            \cup [digit : {""}, speech : Utterances \ {<<>>}]

LowerChar(ch) ==
    CASE ch = "Y" -> "y"
      [] ch = "N" -> "n"
      [] OTHER -> ch

\* (SpeechResult || '').toLowerCase()
LowerSpeech(u) == [i \in 1..Len(u) |-> LowerChar(u[i])]

\* String.prototype.includes
Includes(u, w) ==
    \E i \in 0..(Len(u) - Len(w)) : \A j \in 1..Len(w) : u[i + j] = w[j]

Yes == <<"y", "e", "s">>
Confirm == <<"c", "o", "n", "f", "i", "r", "m">>
No == <<"n", "o">>
Cancel == <<"c", "a", "n", "c", "e", "l">>

\* const confirmed = ... in /voice/confirm-task
Confirmed(t) ==
    t.digit = "1" \/ Includes(LowerSpeech(t.speech), Yes)
                  \/ Includes(LowerSpeech(t.speech), Confirm)

\* const denied = ... in /voice/confirm-task
Denied(t) ==
    t.digit = "2" \/ Includes(LowerSpeech(t.speech), No)
                  \/ Includes(LowerSpeech(t.speech), Cancel)

\* the condition of /voice/add-another
WantsAnother(t) == t.digit = "1" \/ Includes(LowerSpeech(t.speech), Yes)

----------------------------------------------------------------------------
(* Extraction client *)

\* a reply of the extraction service is a sequence of these tokens: the text of
\* a whole JSON object ("objA", "objB", "objErr"), a lone brace, or text without
\* braces
Tokens == {"objA", "objB", "objErr", "{", "}", "txt"}

Opens(tok) == tok \in {"objA", "objB", "objErr", "{"}
Closes(tok) == tok \in {"objA", "objB", "objErr", "}"}

RECURSIVE SeqsUpTo(_, _)
SeqsUpTo(S, n) ==
    IF n = 0 THEN {<<>>}
    ELSE LET shorter == SeqsUpTo(S, n - 1)
         IN  shorter \cup {Append(q, x) : q \in {r \in shorter : Len(r) = n - 1}, x \in S}

Replies == SeqsUpTo(Tokens, MaxReplyLen)

\* text.match(/\{[\s\S]*\}/): from the first "{" to the last "}" of the text,
\* <<>> for null
JsonMatch(text) ==
    LET opens == {i \in 1..Len(text) : Opens(text[i])}
        first == CHOOSE i \in opens : \A k \in opens : i <= k
        closes == {j \in 1..Len(text) : Closes(text[j]) /\ j >= first}
        lastc == CHOOSE j \in closes : \A k \in closes : k <= j
    IN  IF opens = {} THEN <<>>
        ELSE IF closes = {} THEN <<>>
        ELSE SubSeq(text, first, lastc)

\* JSON.parse of a matched text: [ok |-> FALSE] stands for the SyntaxError
JsonParse(m) ==
    IF m = <<"{", "}">> THEN [ok |-> TRUE, value |-> EmptyObj]
    ELSE IF m = <<"objA">> THEN [ok |-> TRUE, value |-> DraftA]
    ELSE IF m = <<"objB">> THEN [ok |-> TRUE, value |-> DraftB]
    ELSE IF m = <<"objErr">> THEN [ok |-> TRUE, value |-> ErrorObj]
    ELSE [ok |-> FALSE, value |-> EmptyObj]

\* the replies the service gives during a dialog: a bare object, an object
\* wrapped in text, the error object, text without an object, an object
\* followed by a stray brace
DialogReplies == {<<"objA">>, <<"txt", "objB", "txt">>, <<"objErr">>, <<"txt">>,
                  <<"objA", "}">>}

\* what the service does with a request: it answers with a text, or the call throws
ServiceResults == [ok : {TRUE}, text : DialogReplies] \cup [ok : {FALSE}, text : {<<>>}]

\* extractTaskFromSpeech: the parsed object, or ok = FALSE when it throws
extractTaskFromSpeech(svc) ==
    IF ~svc.ok THEN [ok |-> FALSE, value |-> EmptyObj]
    ELSE IF JsonMatch(svc.text) # <<>> THEN JsonParse(JsonMatch(svc.text))
    ELSE [ok |-> FALSE, value |-> EmptyObj]

----------------------------------------------------------------------------
(* TwiML: the verbs of a response, and how the gateway executes them *)

Verb(v, u, t, r, l, tr) ==
    [verb |-> v, url |-> u, text |-> t, read |-> r, list |-> l, transcribe |-> tr]

\* twiml.say(text)
Say(text) == Verb("Say", "", text, <<>>, <<>>, FALSE)
\* twiml.say of the read-back of a draft
SayDraft(text, draft) == Verb("Say", "", text, <<draft>>, <<>>, FALSE)
\* twiml.say of the briefing: one sentence per task, in the order of tasks
SayTasks(text, tasks) == Verb("Say", "", text, <<>>, tasks, FALSE)
\* twiml.gather({action}) with the prompt said inside it
Gather(action, prompt) == Verb("Gather", action, prompt, <<>>, <<>>, FALSE)
\* twiml.record({action, transcribe})
Record(action, transcribe) == Verb("Record", action, "", <<>>, <<>>, transcribe)
Redirect(url) == Verb("Redirect", url, "", <<>>, <<>>, FALSE)
Hangup == Verb("Hangup", "", "", <<>>, <<>>, FALSE)

\* the gateway speaks the leading <Say> verbs and stops at the first other verb
RECURSIVE Run(_)
Run(twiml) ==
    IF twiml = <<>> THEN <<>>
    ELSE IF Head(twiml).verb = "Say" THEN Run(Tail(twiml))
    ELSE twiml

\* the verbs left for the call; <<>> when the call is over (<Hangup>, or the
\* document ran out)
Position(twiml) ==
    IF Run(twiml) = <<>> THEN <<>>
    ELSE IF Head(Run(twiml)).verb = "Hangup" THEN <<>>
    ELSE Run(twiml)

\* the draft the gateway reads back while speaking the leading <Say> verbs
RECURSIVE ReadBack(_)
ReadBack(twiml) ==
    IF twiml = <<>> THEN <<>>
    ELSE IF Head(twiml).verb # "Say" THEN <<>>
    ELSE IF Head(twiml).read # <<>> THEN Head(twiml).read
    ELSE ReadBack(Tail(twiml))

\* the texts of the <Say> verbs of a response, those inside <Gather> included
Spoken(twiml) == {twiml[i].text : i \in 1..Len(twiml)} \ {""}

\* whether executing the response ends the call without waiting for the caller
HangsUp(twiml) == Position(twiml) = <<>>

\* the route the response sends the call to without waiting for the caller
RedirectsTo(twiml, url) ==
    Position(twiml) # <<>> /\ Head(Position(twiml)) = Redirect(url)

\* the route the response waits for the caller's input for
GathersFor(twiml, url) ==
    Position(twiml) # <<>> /\ Head(Position(twiml)).verb = "Gather"
                           /\ Head(Position(twiml)).url = url

----------------------------------------------------------------------------
(* Route handlers: the response and the effects of one request *)

\* what a handler leaves behind: its response, the slot, the sheet, and the
\* addTask calls it made (argument and result)
Res(twiml, pending, rows, added) ==
    [twiml |-> twiml, pending |-> pending, rows |-> rows, added |-> added]

Added(t, ok) == [task |-> t, ok |-> ok]

\* a briefing that offers the add-task menu whether or not a task is due
MorningBriefingOffersMenu(slot, rows, readOk, clock) ==
    LET tasks == getUpcomingTasks(rows, readOk, WindowDays, clock)
    IN  Res(<<SayTasks(IF Len(tasks) = 0 THEN "You have no tasks due in the next 5 days"
                       ELSE "Here's your rundown", tasks),
              Gather("/voice/morning-choice", "Press 1 if you'd like to add a new task"),
              Say("Alright, have a productive day"),
              Hangup>>,
            slot, rows, <<>>)

\* POST /voice/morning-briefing
MorningBriefingRes(slot, rows, readOk, clock) ==
    LET tasks == getUpcomingTasks(rows, readOk, WindowDays, clock)
    IN  IF Len(tasks) = 0
        THEN Res(<<Say("You have no tasks due in the next 5 days"), Hangup>>,
                 slot, rows, <<>>)
        ELSE Res(<<SayTasks("Here's your rundown", tasks),
                   Gather("/voice/morning-choice", "Press 1 if you'd like to add a new task"),
                   Say("Alright, have a productive day"),
                   Hangup>>,
                 slot, rows, <<>>)

\* POST /voice/morning-choice
MorningChoiceRes(slot, rows, digit) ==
    IF digit = "1"
    THEN Res(<<Say("Tell me about the task you'd like to add"),
               Record("/voice/process-task", TRUE)>>,
             slot, rows, <<>>)
    ELSE Res(<<Say("Have a great day!"), Hangup>>, slot, rows, <<>>)

\* POST /voice/inbound
InboundRes(slot, rows) ==
    Res(<<Say("Ready to add a task"),
          Record("/voice/process-task", FALSE),
          Say("I didn't catch anything"),
          Redirect("/voice/inbound")>>,
        slot, rows, <<>>)

\* an inbound-speech greeting that resets the slot
InboundSpeechResetsSlot(slot, rows) ==
    Res(<<Say("Tell me about the task you want to add"),
          Gather("/voice/process-speech", ""),
          Say("I didn't catch that"),
          Redirect("/voice/inbound-speech")>>,
        <<>>, rows, <<>>)

\* POST /voice/inbound-speech
InboundSpeechRes(slot, rows) ==
    Res(<<Say("Tell me about the task you want to add"),
          Gather("/voice/process-speech", ""),
          Say("I didn't catch that"),
          Redirect("/voice/inbound-speech")>>,
        slot, rows, <<>>)

\* a process-speech that gives up when the turn carries no transcript
ProcessSpeechGivesUp(slot, rows, transcript, svc) ==
    LET taskData == extractTaskFromSpeech(svc)
    IN  IF ~transcript
        THEN Res(<<Say("I didn't catch that"), Hangup>>, slot, rows, <<>>)
        ELSE IF ~taskData.ok
        THEN Res(<<Say("I had trouble processing that"),
                   Redirect("/voice/inbound-speech")>>,
                 slot, rows, <<>>)
        ELSE IF taskData.value.error # ""
        THEN Res(<<Say("I couldn't understand that as a task"),
                   Redirect("/voice/inbound-speech")>>,
                 slot, rows, <<>>)
        ELSE Res(<<SayDraft("Here's what I heard", taskData.value),
                   Gather("/voice/confirm-task", "Press 1 or say yes to confirm"),
                   Say("I'll save that for you"),
                   Redirect("/voice/auto-confirm")>>,
                 <<taskData.value>>, rows, <<>>)

\* a process-speech that reads the draft back and does not store it
ProcessSpeechReadsBackOnly(slot, rows, transcript, svc) ==
    LET taskData == extractTaskFromSpeech(svc)
    IN  IF ~transcript
        THEN Res(<<Say("I didn't catch that"), Redirect("/voice/inbound-speech")>>,
                 slot, rows, <<>>)
        ELSE IF ~taskData.ok
        THEN Res(<<Say("I had trouble processing that"),
                   Redirect("/voice/inbound-speech")>>,
                 slot, rows, <<>>)
        ELSE IF taskData.value.error # ""
        THEN Res(<<Say("I couldn't understand that as a task"),
                   Redirect("/voice/inbound-speech")>>,
                 slot, rows, <<>>)
        ELSE Res(<<SayDraft("Here's what I heard", taskData.value),
                   Gather("/voice/confirm-task", "Press 1 or say yes to confirm"),
                   Say("I'll save that for you"),
                   Redirect("/voice/auto-confirm")>>,
                 slot, rows, <<>>)

\* a confirm-task that appends an empty row when it finds the slot empty
ConfirmTaskSavesEmptySlot(slot, rows, t, writeOk) ==
    LET draft == IF slot # <<>> THEN slot[1] ELSE EmptyObj
    IN  IF Confirmed(t)
        THEN IF writeOk
             THEN Res(<<Say("Task saved! Would you like to add another task?"),
                        Gather("/voice/add-another", "Press 1 or say yes to add another"),
                        Say("Alright, have a great day Jason!"),
                        Hangup>>,
                      <<>>, addTask(rows, draft, writeOk), <<Added(draft, writeOk)>>)
             ELSE Res(<<Say("Sorry, I had trouble saving that"), Hangup>>,
                      <<>>, addTask(rows, draft, writeOk), <<Added(draft, writeOk)>>)
        ELSE IF Denied(t)
        THEN Res(<<Say("No problem. Let's try again."), Redirect("/voice/inbound-speech")>>,
                 <<>>, rows, <<>>)
        ELSE Res(<<Say("Task saved! Have a great day Jason!"), Hangup>>,
                 <<>>, addTask(rows, draft, writeOk), <<Added(draft, writeOk)>>)

\* a process-speech that stores the draft only into an empty slot
ProcessSpeechKeepsOldDraft(slot, rows, transcript, svc) ==
    LET taskData == extractTaskFromSpeech(svc)
    IN  IF ~transcript
        THEN Res(<<Say("I didn't catch that"), Redirect("/voice/inbound-speech")>>,
                 slot, rows, <<>>)
        ELSE IF ~taskData.ok
        THEN Res(<<Say("I had trouble processing that"),
                   Redirect("/voice/inbound-speech")>>,
                 slot, rows, <<>>)
        ELSE IF taskData.value.error # ""
        THEN Res(<<Say("I couldn't understand that as a task"),
                   Redirect("/voice/inbound-speech")>>,
                 slot, rows, <<>>)
        ELSE Res(<<SayDraft("Here's what I heard", taskData.value),
                   Gather("/voice/confirm-task", "Press 1 or say yes to confirm"),
                   Say("I'll save that for you"),
                   Redirect("/voice/auto-confirm")>>,
                 IF slot = <<>> THEN <<taskData.value>> ELSE slot, rows, <<>>)

\* a process-speech that forgets the pending draft when the extraction fails
ProcessSpeechClearsOnFailure(slot, rows, transcript, svc) ==
    LET taskData == extractTaskFromSpeech(svc)
    IN  IF ~transcript
        THEN Res(<<Say("I didn't catch that"), Redirect("/voice/inbound-speech")>>,
                 slot, rows, <<>>)
        ELSE IF ~taskData.ok
        THEN Res(<<Say("I had trouble processing that"),
                   Redirect("/voice/inbound-speech")>>,
                 <<>>, rows, <<>>)
        ELSE IF taskData.value.error # ""
        THEN Res(<<Say("I couldn't understand that as a task"),
                   Redirect("/voice/inbound-speech")>>,
                 <<>>, rows, <<>>)
        ELSE Res(<<SayDraft("Here's what I heard", taskData.value),
                   Gather("/voice/confirm-task", "Press 1 or say yes to confirm"),
                   Say("I'll save that for you"),
                   Redirect("/voice/auto-confirm")>>,
                 <<taskData.value>>, rows, <<>>)

\* POST /voice/process-speech; transcript is whether SpeechResult is non-empty
ProcessSpeechRes(slot, rows, transcript, svc) ==
    LET taskData == extractTaskFromSpeech(svc)
    IN  IF ~transcript
        THEN Res(<<Say("I didn't catch that"), Redirect("/voice/inbound-speech")>>,
                 slot, rows, <<>>)
        ELSE IF ~taskData.ok
        THEN Res(<<Say("I had trouble processing that"),
                   Redirect("/voice/inbound-speech")>>,
                 slot, rows, <<>>)
        ELSE IF taskData.value.error # ""
        THEN Res(<<Say("I couldn't understand that as a task"),
                   Redirect("/voice/inbound-speech")>>,
                 slot, rows, <<>>)
        ELSE Res(<<SayDraft("Here's what I heard", taskData.value),
                   Gather("/voice/confirm-task", "Press 1 or say yes to confirm"),
                   Say("I'll save that for you"),
                   Redirect("/voice/auto-confirm")>>,
                 <<taskData.value>>, rows, <<>>)

\* a confirm-task that offers "add another" whether or not the append succeeded
ConfirmTaskIgnoresFailure(slot, rows, t, writeOk) ==
    IF Confirmed(t) /\ slot # <<>>
    THEN Res(<<Say("Task saved! Would you like to add another task?"),
               Gather("/voice/add-another", "Press 1 or say yes to add another"),
               Say("Alright, have a great day Jason!"),
               Hangup>>,
             <<>>, addTask(rows, slot[1], writeOk), <<Added(slot[1], writeOk)>>)
    ELSE IF Denied(t)
    THEN Res(<<Say("No problem. Let's try again."), Redirect("/voice/inbound-speech")>>,
             <<>>, rows, <<>>)
    ELSE IF slot # <<>>
    THEN Res(<<Say("Task saved! Have a great day Jason!"), Hangup>>,
             <<>>, addTask(rows, slot[1], writeOk), <<Added(slot[1], writeOk)>>)
    ELSE Res(<<Hangup>>, <<>>, rows, <<>>)

\* a confirm-task that takes anything but an explicit accept as a reject
ConfirmTaskDefaultsToReject(slot, rows, t, writeOk) ==
    IF Confirmed(t) /\ slot # <<>>
    THEN IF writeOk
         THEN Res(<<Say("Task saved! Would you like to add another task?"),
                    Gather("/voice/add-another", "Press 1 or say yes to add another"),
                    Say("Alright, have a great day Jason!"),
                    Hangup>>,
                  <<>>, addTask(rows, slot[1], writeOk), <<Added(slot[1], writeOk)>>)
         ELSE Res(<<Say("Sorry, I had trouble saving that"), Hangup>>,
                  <<>>, addTask(rows, slot[1], writeOk), <<Added(slot[1], writeOk)>>)
    ELSE Res(<<Say("No problem. Let's try again."), Redirect("/voice/inbound-speech")>>,
             <<>>, rows, <<>>)

\* a confirm-task that clears the slot only after it has saved the draft
ConfirmTaskKeepsOnReject(slot, rows, t, writeOk) ==
    IF Confirmed(t) /\ slot # <<>>
    THEN IF writeOk
         THEN Res(<<Say("Task saved! Would you like to add another task?"),
                    Gather("/voice/add-another", "Press 1 or say yes to add another"),
                    Say("Alright, have a great day Jason!"),
                    Hangup>>,
                  <<>>, addTask(rows, slot[1], writeOk), <<Added(slot[1], writeOk)>>)
         ELSE Res(<<Say("Sorry, I had trouble saving that"), Hangup>>,
                  <<>>, addTask(rows, slot[1], writeOk), <<Added(slot[1], writeOk)>>)
    ELSE IF Denied(t)
    THEN Res(<<Say("No problem. Let's try again."), Redirect("/voice/inbound-speech")>>,
             slot, rows, <<>>)
    ELSE IF slot # <<>>
    THEN Res(<<Say("Task saved! Have a great day Jason!"), Hangup>>,
             <<>>, addTask(rows, slot[1], writeOk), <<Added(slot[1], writeOk)>>)
    ELSE Res(<<Hangup>>, <<>>, rows, <<>>)

\* POST /voice/confirm-task
ConfirmTaskRes(slot, rows, t, writeOk) ==
    IF Confirmed(t) /\ slot # <<>>
    THEN IF writeOk
         THEN Res(<<Say("Task saved! Would you like to add another task?"),
                    Gather("/voice/add-another", "Press 1 or say yes to add another"),
                    Say("Alright, have a great day Jason!"),
                    Hangup>>,
                  <<>>, addTask(rows, slot[1], writeOk), <<Added(slot[1], writeOk)>>)
         ELSE Res(<<Say("Sorry, I had trouble saving that"), Hangup>>,
                  <<>>, addTask(rows, slot[1], writeOk), <<Added(slot[1], writeOk)>>)
    ELSE IF Denied(t)
    THEN Res(<<Say("No problem. Let's try again."), Redirect("/voice/inbound-speech")>>,
             <<>>, rows, <<>>)
    ELSE IF slot # <<>>
    THEN Res(<<Say("Task saved! Have a great day Jason!"), Hangup>>,
             <<>>, addTask(rows, slot[1], writeOk), <<Added(slot[1], writeOk)>>)
    ELSE Res(<<Hangup>>, <<>>, rows, <<>>)

\* an auto-confirm that saves the draft and saves it again when the first
\* append is not acknowledged
AutoConfirmSavesTwice(slot, rows, writeOk) ==
    IF slot # <<>>
    THEN Res(<<Say("Task saved! Have a great day Jason!"), Hangup>>,
             <<>>, addTask(addTask(rows, slot[1], writeOk), slot[1], writeOk),
             <<Added(slot[1], writeOk), Added(slot[1], writeOk)>>)
    ELSE Res(<<Hangup>>, slot, rows, <<>>)

\* POST /voice/auto-confirm
AutoConfirmRes(slot, rows, writeOk) ==
    IF slot # <<>>
    THEN Res(<<Say("Task saved! Have a great day Jason!"), Hangup>>,
             <<>>, addTask(rows, slot[1], writeOk), <<Added(slot[1], writeOk)>>)
    ELSE Res(<<Hangup>>, slot, rows, <<>>)

\* an add-another that takes what confirm-task takes as an accept
AddAnotherAcceptsConfirm(slot, rows, t) ==
    IF Confirmed(t)
    THEN Res(<<Redirect("/voice/inbound-speech")>>, slot, rows, <<>>)
    ELSE Res(<<Say("Have a great day Jason!"), Hangup>>, slot, rows, <<>>)

\* POST /voice/add-another
AddAnotherRes(slot, rows, t) ==
    IF WantsAnother(t)
    THEN Res(<<Redirect("/voice/inbound-speech")>>, slot, rows, <<>>)
    ELSE Res(<<Say("Have a great day Jason!"), Hangup>>, slot, rows, <<>>)

\* a process-task that resets the slot before it hangs up
ProcessTaskResetsSlot(slot, rows) ==
    Res(<<Say("Got your recording. I'll process it and add the task."), Hangup>>,
        <<>>, rows, <<>>)

\* POST /voice/process-task
ProcessTaskRes(slot, rows) ==
    Res(<<Say("Got your recording. I'll process it and add the task."), Hangup>>,
        slot, rows, <<>>)

\* a transcription callback that parks the draft in the slot for confirmation
TranscriptionCallbackParksDraft(slot, rows, transcript, svc, writeOk) ==
    LET taskData == extractTaskFromSpeech(svc)
    IN  IF transcript /\ taskData.ok /\ taskData.value.error = ""
        THEN Res(<<>>, <<taskData.value>>, rows, <<>>)
        ELSE Res(<<>>, slot, rows, <<>>)

\* POST /voice/transcription-callback; it answers 200 with no TwiML
TranscriptionCallbackRes(slot, rows, transcript, svc, writeOk) ==
    LET taskData == extractTaskFromSpeech(svc)
    IN  IF transcript /\ taskData.ok /\ taskData.value.error = ""
        THEN Res(<<>>, slot, addTask(rows, taskData.value, writeOk),
                 <<Added(taskData.value, writeOk)>>)
        ELSE Res(<<>>, slot, rows, <<>>)

----------------------------------------------------------------------------
(* The state machine *)

NoTurn == [digit |-> "", speech |-> <<>>]

\* the request did not call the extraction service
NoService == [ok |-> FALSE, text |-> <<"">>]

\* no request was served by the latest step
NoRequest ==
    [route |-> "", call |-> "A", turn |-> NoTurn, transcript |-> FALSE, svc |-> NoService,
     slotBefore |-> <<>>, rowsBefore |-> <<>>, heardBefore |-> <<>>,
     twiml |-> <<>>, added |-> <<>>, placed |-> FALSE]

\* the record of the request served by a step
Served(route, c, t, transcript, svc, res, placed) ==
    [route |-> route, call |-> c, turn |-> t, transcript |-> transcript, svc |-> svc,
     slotBefore |-> pendingTask, rowsBefore |-> sheet, heardBefore |-> heard[c],
     twiml |-> res.twiml, added |-> res.added, placed |-> placed]

Init ==
    /\ pendingTask = <<>>
    /\ sheet = <<>>
    /\ now = 0
    /\ doc = [c \in Calls |-> <<>>]
    /\ heard = [c \in Calls |-> <<>>]
    /\ transcribing = 0
    /\ overlap = FALSE
    /\ last = NoRequest

\* the outcomes the sheet can give to a values.append
WriteResults == IF Len(sheet) < MaxRows THEN BOOLEAN ELSE {FALSE}

\* call c is over or has not begun
Idle(c) == doc[c] = <<>>

\* a call can begin on c: c is free; when calls do not overlap every call is
\* over before the next begins, and the next is named "A" again
CanStart(c) == Idle(c) /\ (overlap \/ (c = "A" /\ \A d \in Calls : Idle(d)))

\* the gateway is about to request url for call c without input from the caller
Requested(c, url) == ~Idle(c) /\ Head(doc[c]) = Redirect(url)

\* the gateway waits for the caller of c, whose input it will post to url
Awaited(c, url) ==
    ~Idle(c) /\ Head(doc[c]).verb \in {"Gather", "Record"} /\ Head(doc[c]).url = url

\* the gateway executes the response of a handler for call c
Respond(c, res) ==
    /\ pendingTask' = res.pending
    /\ sheet' = res.rows
    /\ doc' = [doc EXCEPT ![c] = Position(res.twiml)]
    /\ heard' = [heard EXCEPT ![c] = IF Position(res.twiml) = <<>> THEN <<>>
                                     ELSE ReadBack(res.twiml)]

\* a caller dials the number; the webhook is /voice/inbound-speech or /voice/inbound
IncomingCall(c, url) ==
    /\ CanStart(c)
    /\ doc' = [doc EXCEPT ![c] = <<Redirect(url)>>]
    /\ last' = NoRequest
    /\ UNCHANGED <<pendingTask, sheet, now, heard, transcribing, overlap>>

\* makeMorningCall: place the outbound call unless no task is upcoming;
\* createOk is whether calls.create returns and the call is answered
makeMorningCall(c, readOk, createOk) ==
    LET tasks == getUpcomingTasks(sheet, readOk, WindowDays, now)
        placed == Len(tasks) # 0 /\ createOk
    IN  /\ Idle(c)
        /\ placed => CanStart(c)
        /\ doc' = [doc EXCEPT ![c] =
                      IF placed THEN <<Redirect("/voice/morning-briefing")>> ELSE <<>>]
        /\ last' = Served("makeMorningCall", c, NoTurn, FALSE, NoService,
                          Res(<<>>, pendingTask, sheet, <<>>), placed)
        /\ UNCHANGED <<pendingTask, sheet, now, heard, transcribing, overlap>>

MorningBriefing(c, readOk) ==
    LET res == MorningBriefingRes(pendingTask, sheet, readOk, now)
    IN  /\ Requested(c, "/voice/morning-briefing")
        /\ Respond(c, res)
        /\ last' = Served("/voice/morning-briefing", c, NoTurn, FALSE, NoService, res, FALSE)
        /\ UNCHANGED <<now, transcribing, overlap>>

MorningChoice(c, digit) ==
    LET res == MorningChoiceRes(pendingTask, sheet, digit)
    IN  /\ Awaited(c, "/voice/morning-choice")
        /\ digit # ""
        /\ Respond(c, res)
        /\ last' = Served("/voice/morning-choice", c, [digit |-> digit, speech |-> <<>>],
                          FALSE, NoService, res, FALSE)
        /\ UNCHANGED <<now, transcribing, overlap>>

Inbound(c) ==
    LET res == InboundRes(pendingTask, sheet)
    IN  /\ Requested(c, "/voice/inbound")
        /\ Respond(c, res)
        /\ last' = Served("/voice/inbound", c, NoTurn, FALSE, NoService, res, FALSE)
        /\ UNCHANGED <<now, transcribing, overlap>>

InboundSpeech(c) ==
    LET res == InboundSpeechRes(pendingTask, sheet)
    IN  /\ Requested(c, "/voice/inbound-speech")
        /\ Respond(c, res)
        /\ last' = Served("/voice/inbound-speech", c, NoTurn, FALSE, NoService, res, FALSE)
        /\ UNCHANGED <<now, transcribing, overlap>>

ProcessSpeech(c, transcript, svc) ==
    LET res == ProcessSpeechRes(pendingTask, sheet, transcript, svc)
    IN  /\ Awaited(c, "/voice/process-speech")
        /\ Respond(c, res)
        /\ last' = Served("/voice/process-speech", c, NoTurn, transcript, svc, res, FALSE)
        /\ UNCHANGED <<now, transcribing, overlap>>

ConfirmTask(c, t, writeOk) ==
    LET res == ConfirmTaskRes(pendingTask, sheet, t, writeOk)
    IN  /\ Awaited(c, "/voice/confirm-task")
        /\ Respond(c, res)
        /\ last' = Served("/voice/confirm-task", c, t, FALSE, NoService, res, FALSE)
        /\ UNCHANGED <<now, transcribing, overlap>>

AutoConfirm(c, writeOk) ==
    LET res == AutoConfirmRes(pendingTask, sheet, writeOk)
    IN  /\ Requested(c, "/voice/auto-confirm")
        /\ Respond(c, res)
        /\ last' = Served("/voice/auto-confirm", c, NoTurn, FALSE, NoService, res, FALSE)
        /\ UNCHANGED <<now, transcribing, overlap>>

AddAnother(c, t) ==
    LET res == AddAnotherRes(pendingTask, sheet, t)
    IN  /\ Awaited(c, "/voice/add-another")
        /\ Respond(c, res)
        /\ last' = Served("/voice/add-another", c, t, FALSE, NoService, res, FALSE)
        /\ UNCHANGED <<now, transcribing, overlap>>

\* the recording ended; a transcription is ordered if the <Record> asked for one
ProcessTask(c) ==
    LET res == ProcessTaskRes(pendingTask, sheet)
    IN  /\ Awaited(c, "/voice/process-task")
        /\ Head(doc[c]).transcribe => transcribing < MaxTranscribing
        /\ transcribing' = IF Head(doc[c]).transcribe THEN transcribing + 1 ELSE transcribing
        /\ Respond(c, res)
        /\ last' = Served("/voice/process-task", c, NoTurn, FALSE, NoService, res, FALSE)
        /\ UNCHANGED <<now, overlap>>

\* the transcription service delivers a transcription, whenever it is ready
TranscriptionCallback(transcript, svc, writeOk) ==
    LET res == TranscriptionCallbackRes(pendingTask, sheet, transcript, svc, writeOk)
    IN  /\ transcribing > 0
        /\ transcribing' = transcribing - 1
        /\ pendingTask' = res.pending
        /\ sheet' = res.rows
        /\ last' = [Served("/voice/transcription-callback", "A", NoTurn, transcript, svc,
                           res, FALSE) EXCEPT !.heardBefore = <<>>]
        /\ UNCHANGED <<now, doc, heard, overlap>>

\* the caller gives no input: the gateway goes on with the verbs after the
\* <Gather> or <Record>
Timeout(c) ==
    /\ ~Idle(c)
    /\ Head(doc[c]).verb \in {"Gather", "Record"}
    /\ doc' = [doc EXCEPT ![c] = Position(Tail(doc[c]))]
    /\ heard' = [heard EXCEPT ![c] = IF Position(Tail(doc[c])) = <<>> THEN <<>> ELSE @]
    /\ last' = NoRequest
    /\ UNCHANGED <<pendingTask, sheet, now, transcribing, overlap>>

\* the caller hangs up: no further turn of this call reaches the server
Abandon(c) ==
    /\ ~Idle(c)
    /\ doc' = [doc EXCEPT ![c] = <<>>]
    /\ heard' = [heard EXCEPT ![c] = <<>>]
    /\ last' = NoRequest
    /\ UNCHANGED <<pendingTask, sheet, now, transcribing, overlap>>

Tick ==
    /\ now < MaxClock
    /\ now' = now + 1
    /\ last' = NoRequest
    /\ UNCHANGED <<pendingTask, sheet, doc, heard, transcribing, overlap>>

Next ==
    \/ \E c \in Calls, url \in {"/voice/inbound-speech", "/voice/inbound"} :
          IncomingCall(c, url)
    \/ \E c \in Calls, readOk \in BOOLEAN, createOk \in BOOLEAN :
          makeMorningCall(c, readOk, createOk)
    \/ \E c \in Calls, readOk \in BOOLEAN : MorningBriefing(c, readOk)
    \/ \E c \in Calls, digit \in Digits : MorningChoice(c, digit)
    \/ \E c \in Calls : Inbound(c)
    \/ \E c \in Calls : InboundSpeech(c)
    \/ \E c \in Calls, transcript \in BOOLEAN, svc \in ServiceResults :
          ProcessSpeech(c, transcript, svc)
    \/ \E c \in Calls, t \in Turns, writeOk \in WriteResults : ConfirmTask(c, t, writeOk)
    \/ \E c \in Calls, writeOk \in WriteResults : AutoConfirm(c, writeOk)
    \/ \E c \in Calls, t \in Turns : AddAnother(c, t)
    \/ \E c \in Calls : ProcessTask(c)
    \/ \E transcript \in BOOLEAN, svc \in ServiceResults, writeOk \in WriteResults :
          TranscriptionCallback(transcript, svc, writeOk)
    \/ \E c \in Calls : Timeout(c)
    \/ \E c \in Calls : Abandon(c)
    \/ Tick

Spec == Init /\ [][Next]_vars

\* The speech dialog alone, with calls one at a time or two at once.  A handler
\* is one step here too: the interleavings of whole turns are among those the
\* server allows, since it serves the requests of two calls in any order.
InitTwoCalls ==
    /\ pendingTask = <<>>
    /\ sheet = <<>>
    /\ now = 0
    /\ doc = [c \in Calls |-> <<>>]
    /\ heard = [c \in Calls |-> <<>>]
    /\ transcribing = 0
    /\ overlap \in BOOLEAN
    /\ last = NoRequest

NextTwoCalls ==
    \/ \E c \in Calls : IncomingCall(c, "/voice/inbound-speech")
    \/ \E c \in Calls : InboundSpeech(c)
    \/ \E c \in Calls, transcript \in BOOLEAN, svc \in ServiceResults :
          ProcessSpeech(c, transcript, svc)
    \/ \E c \in Calls, t \in Turns, writeOk \in WriteResults : ConfirmTask(c, t, writeOk)
    \/ \E c \in Calls, writeOk \in WriteResults : AutoConfirm(c, writeOk)
    \/ \E c \in Calls, t \in Turns : AddAnother(c, t)
    \/ \E c \in Calls : Timeout(c)
    \/ \E c \in Calls : Abandon(c)

SpecTwoCalls == InitTwoCalls /\ [][NextTwoCalls]_vars

----------------------------------------------------------------------------
(* The due-task filter on its own: the sheet and the instant are inputs *)

\* rows a sheet of the filter's inputs has at most
MaxTasks == 2

\* rows of the Tasks tab as the sheet's owner may have typed them: statuses and
\* priorities in any case, a priority the code does not know, a due date that
\* is no date, cells left empty, trailing cells missing
SheetRows ==
    {Row("Pay rent", "High", "Not Started", "2025-02-08"),
     Row("Call bank", "LOW", "In Progress", "2025-02-13"),
     Row("Book flights", "Urgent", "Not Started", "2025-02-14"),
     Row("File taxes", "High", "Completed", "2025-02-10"),
     Row("Renew passport", "Medium", "DONE", "2025-02-09"),
     Row("Clean garage", "Low", "Not Started", "someday"),
     <<"Buy milk">>,
     Row("Send invoice", "", "", "2025-02-09")}

SheetInputs == SeqsUpTo(SheetRows, MaxTasks)

\* the values of the parameter days: the default of both callers, and one day
DaysInputs == {1, WindowDays}

InitDue ==
    /\ pendingTask = <<>>
    /\ sheet \in SheetInputs
    /\ now \in 0..MaxClock
    /\ doc = [c \in Calls |-> <<>>]
    /\ heard = [c \in Calls |-> <<>>]
    /\ transcribing = 0
    /\ overlap = FALSE
    /\ last = NoRequest

\* one call of getUpcomingTasks(days): what readTasks gave it, the instant it
\* read from the clock, and what it returned
CallGetUpcomingTasks(readOk, days) ==
    /\ last' = [route |-> "getUpcomingTasks",
                tasks |-> readTasks(sheet, readOk),
                clock |-> now,
                days |-> days,
                result |-> getUpcomingTasks(sheet, readOk, days, now)]
    /\ UNCHANGED <<pendingTask, sheet, now, doc, heard, transcribing, overlap>>

NextDue ==
    \/ \E readOk \in BOOLEAN, days \in DaysInputs : CallGetUpcomingTasks(readOk, days)
    \/ \E readOk \in BOOLEAN, createOk \in BOOLEAN : makeMorningCall("A", readOk, createOk)
    \/ \E readOk \in BOOLEAN : MorningBriefing("A", readOk)
    \/ Timeout("A")
    \/ Abandon("A")
    \/ Tick

SpecDue == InitDue /\ [][NextDue]_vars

----------------------------------------------------------------------------
(* The extraction client on its own: the reply of the service is the input *)

\* what the service can do with a request: any reply of up to MaxReplyLen
\* tokens, or the call throws
ExtractInputs == [ok : {TRUE}, text : Replies] \cup [ok : {FALSE}, text : {<<>>}]

\* one call of extractTaskFromSpeech: what the service did and what the client
\* made of it
CallExtractTaskFromSpeech(svc) ==
    /\ last' = [route |-> "extractTaskFromSpeech",
                svc |-> svc,
                result |-> extractTaskFromSpeech(svc)]
    /\ UNCHANGED <<pendingTask, sheet, now, doc, heard, transcribing, overlap>>

NextExtract == \E svc \in ExtractInputs : CallExtractTaskFromSpeech(svc)

SpecExtract == Init /\ [][NextExtract]_vars

----------------------------------------------------------------------------
(* Vocabulary of the claims *)

ConfirmRoutes == {"/voice/confirm-task", "/voice/auto-confirm"}

\* a confirm-task turn that is an explicit reject and carries no accept input
ExplicitReject(t) == Denied(t) /\ ~Confirmed(t)

\* a confirm-task turn that is neither an explicit accept nor an explicit reject
Ambiguous(t) == ~Confirmed(t) /\ ~Denied(t)

\* the call waits in AwaitingTaskSpeech once the pending request is served: the
\* response sends it to /voice/inbound-speech, whose response gathers speech
\* for /voice/process-speech
BackToCapture(twiml) ==
    /\ RedirectsTo(twiml, "/voice/inbound-speech")
    /\ GathersFor(InboundSpeechRes(pendingTask, sheet).twiml, "/voice/process-speech")

\* the request called addTask exactly once, with draft d, and the sheet gained
\* the row of d if the store accepted the append and nothing otherwise
AppendedOnce(d) ==
    /\ Len(last.added) = 1
    /\ last.added[1].task = d
    /\ sheet = IF last.added[1].ok
               THEN Append(last.rowsBefore, Row(d.task, d.priority, d.status, d.dueDate))
               ELSE last.rowsBefore

\* the request called addTask not at all and left the sheet as it was
AppendedNothing == last.added = <<>> /\ sheet = last.rowsBefore

SuccessTexts == {"Task saved! Would you like to add another task?",
                 "Task saved! Have a great day Jason!"}
FailureTexts == {"Sorry, I had trouble saving that"}

----------------------------------------------------------------------------
(* C1 *)

\* C1: after a successful extraction has stored a pending draft, an explicit
\* reject at the confirmation step (digit 2, or speech containing "no" or
\* "cancel", and no accept input) appends no row, leaves the slot empty and
\* sends the dialog back to the speech-capture prompt.
C1_RejectDiscardsDraft ==
    (/\ last.route = "/voice/confirm-task"
     /\ last.slotBefore # <<>>
     /\ ExplicitReject(last.turn))
    => (/\ AppendedNothing
        /\ pendingTask = <<>>
        /\ BackToCapture(last.twiml)
        /\ doc[last.call] = <<Redirect("/voice/inbound-speech")>>)

C1_Witness ==
    /\ last.route = "/voice/confirm-task"
    /\ last.slotBefore = <<DraftA>>
    /\ last.heardBefore = <<DraftA>>
    /\ last.turn.speech = SayNo
    /\ pendingTask = <<>>
    /\ sheet = <<>>

----------------------------------------------------------------------------
(* C2 *)

\* C2: after a successful extraction, if the caller gives no input before the
\* confirmation prompt times out, the fall-through of the prompt is the
\* auto-confirm route, and auto-confirm appends the pending draft exactly once
\* (one addTask call with the draft read back to the caller; nothing is
\* appended by the extraction turn itself), empties the slot and hangs up.
C2_TimeoutSavesOnce ==
    /\ (last.route = "/voice/process-speech" /\ ReadBack(last.twiml) # <<>>)
       => (/\ pendingTask = ReadBack(last.twiml)
           /\ AppendedNothing
           /\ GathersFor(last.twiml, "/voice/confirm-task")
           /\ Position(Tail(Position(last.twiml))) = <<Redirect("/voice/auto-confirm")>>)
    /\ last.route = "/voice/auto-confirm"
       => (/\ last.slotBefore # <<>>
           /\ last.slotBefore = last.heardBefore
           /\ AppendedOnce(last.slotBefore[1])
           /\ pendingTask = <<>>
           /\ HangsUp(last.twiml)
           /\ Idle(last.call))

C2_Witness ==
    /\ last.route = "/voice/auto-confirm"
    /\ last.slotBefore = <<DraftB>>
    /\ last.rowsBefore = <<>>
    /\ sheet = <<Row("Review PRs", "Low", "Not Started", "2025-02-09")>>
    /\ pendingTask = <<>>

----------------------------------------------------------------------------
(* C3 *)

\* the three ways an extraction fails for process-speech
ServiceThrows(svc) == ~svc.ok
ReplyUnparsable(svc) == svc.ok /\ ~extractTaskFromSpeech(svc).ok
NotATask(svc) ==
    svc.ok /\ extractTaskFromSpeech(svc).ok /\ extractTaskFromSpeech(svc).value.error # ""

\* C3: in AwaitingTaskSpeech with a transcript present, if the extraction
\* returns an error object, or the reply cannot be parsed, or the service call
\* throws, the dialog re-enters AwaitingTaskSpeech, no row is appended and the
\* slot is left unchanged; every failure kind leads to the same next state.
C3_ExtractionFailureReprompts ==
    (/\ last.route = "/voice/process-speech"
     /\ last.transcript
     /\ ServiceThrows(last.svc) \/ ReplyUnparsable(last.svc) \/ NotATask(last.svc))
    => (/\ BackToCapture(last.twiml)
        /\ doc[last.call] = <<Redirect("/voice/inbound-speech")>>
        /\ heard[last.call] = <<>>
        /\ AppendedNothing
        /\ pendingTask = last.slotBefore)

\* an unparsable reply arrives while the slot still holds a draft
C3_Witness ==
    /\ last.route = "/voice/process-speech"
    /\ last.transcript
    /\ last.svc.text = <<"objA", "}">>
    /\ last.slotBefore = <<DraftB>>
    /\ pendingTask = <<DraftB>>

----------------------------------------------------------------------------
(* C4 *)

\* C4: in AwaitingConfirmation with a pending draft, an explicit accept calls
\* the append of that draft exactly once; if it succeeds the dialog speaks
\* success and waits in AwaitingAddAnother, if it fails the dialog speaks the
\* failure message and hangs up; the slot is empty afterwards in both cases.
C4_AcceptSavesOnce ==
    (/\ last.route = "/voice/confirm-task"
     /\ last.slotBefore # <<>>
     /\ Confirmed(last.turn))
    => (/\ AppendedOnce(last.slotBefore[1])
        /\ pendingTask = <<>>
        /\ IF last.added[1].ok
           THEN /\ Spoken(last.twiml) \cap SuccessTexts # {}
                /\ Spoken(last.twiml) \cap FailureTexts = {}
                /\ GathersFor(last.twiml, "/voice/add-another")
           ELSE /\ Spoken(last.twiml) = FailureTexts
                /\ HangsUp(last.twiml)
                /\ Idle(last.call))

\* an accept whose append fails
C4_Witness ==
    /\ last.route = "/voice/confirm-task"
    /\ last.slotBefore = <<DraftA>>
    /\ last.turn.speech = SayYes
    /\ Len(sheet) < MaxRows
    /\ last.added = <<Added(DraftA, FALSE)>>
    /\ Idle(last.call)

----------------------------------------------------------------------------
(* C5 *)

\* the routes whose responses can hang up
HangupRoutes == {"/voice/morning-briefing", "/voice/morning-choice", "/voice/confirm-task",
                 "/voice/auto-confirm", "/voice/add-another", "/voice/process-task"}

\* C5 as stated: every response that hangs up the call leaves the slot
\* cleared, over all sequences of turns of successive calls.
C5_HangupLeavesSlotEmpty ==
    (last.route \in HangupRoutes /\ HangsUp(last.twiml)) => pendingTask = <<>>

\* C5 amended: a response that hangs up always ends the call; from
\* confirm-task, auto-confirm and add-another it leaves the slot empty; from
\* morning-briefing, morning-choice and process-task it leaves the slot as it
\* found it, and a draft found there was not read back in this call.
C5_HangupClearsOnlyAfterConfirmation ==
    (last.route \in HangupRoutes /\ HangsUp(last.twiml))
    => (/\ Idle(last.call)
        /\ last.route \in {"/voice/confirm-task", "/voice/auto-confirm", "/voice/add-another"}
           => pendingTask = <<>>
        /\ last.route \in {"/voice/morning-briefing", "/voice/morning-choice",
                           "/voice/process-task"}
           => (pendingTask = last.slotBefore /\ last.heardBefore = <<>>))

\* a call that never reached the confirmation step hangs up over a draft left
\* by an earlier call
C5_Witness ==
    /\ last.route = "/voice/process-task"
    /\ HangsUp(last.twiml)
    /\ last.slotBefore = <<DraftA>>
    /\ pendingTask = <<DraftA>>

----------------------------------------------------------------------------
(* C6 *)

\* C6 as stated: pressing 1 after the briefing puts the dialog where an
\* inbound call is, waiting for speech that goes to extraction and then to the
\* confirmation step, and rows are appended only by the confirmation routes.
C6_AddAfterBriefingConfirms ==
    /\ (last.route = "/voice/morning-choice" /\ last.turn.digit = "1")
       => \/ GathersFor(last.twiml, "/voice/process-speech")
          \/ RedirectsTo(last.twiml, "/voice/inbound-speech")
    /\ last.added # <<>> => last.route \in ConfirmRoutes

\* C6 amended: pressing 1 after the briefing starts a recording for
\* /voice/process-task with transcription; process-task hangs up without
\* extracting or appending; the transcription callback sends the transcript to
\* extraction and appends a successful result at once, without read-back,
\* confirmation or use of the slot; rows are appended only by the confirmation
\* routes and by that callback.
C6_AddAfterBriefingSavesUnconfirmed ==
    /\ (last.route = "/voice/morning-choice" /\ last.turn.digit = "1")
       => (/\ doc[last.call] = <<Record("/voice/process-task", TRUE)>>
           /\ AppendedNothing
           /\ pendingTask = last.slotBefore)
    /\ last.route = "/voice/process-task"
       => (HangsUp(last.twiml) /\ AppendedNothing /\ pendingTask = last.slotBefore)
    /\ last.route = "/voice/transcription-callback"
       => (/\ pendingTask = last.slotBefore
           /\ IF /\ last.transcript
                 /\ ~ServiceThrows(last.svc)
                 /\ ~ReplyUnparsable(last.svc)
                 /\ ~NotATask(last.svc)
              THEN AppendedOnce(extractTaskFromSpeech(last.svc).value)
              ELSE AppendedNothing)
    /\ last.added # <<>>
       => last.route \in ConfirmRoutes \cup {"/voice/transcription-callback"}

\* the callback appends a draft that nobody confirmed
C6_Witness ==
    /\ last.route = "/voice/transcription-callback"
    /\ last.added = <<Added(DraftB, TRUE)>>
    /\ last.slotBefore = <<>>
    /\ Len(sheet) = Len(last.rowsBefore) + 1

----------------------------------------------------------------------------
(* C7 *)

\* C7: on each path that attempts to append the pending draft (explicit
\* accept and ambiguous input in confirm-task, timeout in auto-confirm), if
\* the append returns failure the response speaks a failure message and never
\* a "task saved" message.
C7_FailedSaveIsSpoken ==
    (/\ last.route \in ConfirmRoutes
     /\ last.added # <<>>
     /\ ~last.added[1].ok)
    => (/\ Spoken(last.twiml) \cap FailureTexts # {}
        /\ Spoken(last.twiml) \cap SuccessTexts = {})

----------------------------------------------------------------------------
(* C8 *)

\* C8: in AwaitingConfirmation with a pending draft, a turn that is neither an
\* explicit accept nor an explicit reject is an implicit accept: the append of
\* the pending draft is called exactly once, the slot is cleared and the call
\* is hung up without the "add another" offer.
C8_AmbiguousSavesAndHangsUp ==
    (/\ last.route = "/voice/confirm-task"
     /\ last.slotBefore # <<>>
     /\ Ambiguous(last.turn))
    => (/\ AppendedOnce(last.slotBefore[1])
        /\ pendingTask = <<>>
        /\ HangsUp(last.twiml)
        /\ Idle(last.call)
        /\ \A i \in 1..Len(last.twiml) : last.twiml[i].verb # "Gather")

C8_Witness ==
    /\ last.route = "/voice/confirm-task"
    /\ last.slotBefore = <<DraftA>>
    /\ last.turn.digit = "9"
    /\ sheet = <<Row("Finish Q3 report", "High", "Not Started", "2025-02-10")>>
    /\ last.rowsBefore = <<>>
    /\ pendingTask = <<>>

----------------------------------------------------------------------------
(* C9 *)

\* C9: the single unlocked slot is not safe for two calls active at once: an
\* interleaving of the turns of calls A and B makes A's confirmation append
\* B's draft, or loses A's draft although A accepted it (C9_Witness,
\* C9_LostDraft); with one call active at a time every confirmation turn
\* finds in the slot the draft read back to its own caller, appends nothing
\* else, and an accept appends it.
C9_OneCallAtATimeIsSafe ==
    (~overlap /\ last.route \in ConfirmRoutes)
    => (/\ last.heardBefore # <<>>
        /\ last.slotBefore = last.heardBefore
        /\ last.added # <<>> => last.added[1].task = last.heardBefore[1]
        /\ (last.route = "/voice/confirm-task" /\ Confirmed(last.turn))
           => AppendedOnce(last.heardBefore[1]))

\* A heard draft A read back, accepts, and the row appended is B's draft
C9_Witness ==
    /\ overlap
    /\ last.route = "/voice/confirm-task"
    /\ last.call = "A"
    /\ Confirmed(last.turn)
    /\ last.heardBefore = <<DraftA>>
    /\ last.added = <<Added(DraftB, TRUE)>>
    /\ sheet = <<Row("Review PRs", "Low", "Not Started", "2025-02-09")>>

\* A heard draft A read back and accepts, B's turn has emptied the slot, and
\* nothing is appended
C9_LostDraft ==
    /\ overlap
    /\ last.route = "/voice/confirm-task"
    /\ last.call = "A"
    /\ Confirmed(last.turn)
    /\ last.heardBefore = <<DraftA>>
    /\ last.slotBefore = <<>>
    /\ AppendedNothing

----------------------------------------------------------------------------
(* C10 *)

GreetingRoutes == {"/voice/inbound-speech", "/voice/inbound", "/voice/morning-briefing"}

\* C10 as stated: when a caller hangs up while a draft is pending, the slot is
\* reset no later than the greeting turn of the next call, which finds or
\* leaves the slot empty.
C10_GreetingLeavesSlotEmpty ==
    last.route \in GreetingRoutes => pendingTask = <<>>

\* C10 amended: when a caller hangs up while a draft is pending, the draft
\* stays in the slot; the greeting turn of the next call neither reads nor
\* resets it, and no request changes the slot except a process-speech turn
\* that extracts a draft (which replaces it) and the confirm-task and
\* auto-confirm turns (which empty it).
C10_StaleDraftOutlivesGreeting ==
    /\ (last.route # "" /\ last.route \notin ConfirmRoutes \cup {"/voice/process-speech"})
       => pendingTask = last.slotBefore
    /\ last.route \in GreetingRoutes => AppendedNothing
    /\ last.route = "/voice/process-speech"
       => pendingTask = IF ReadBack(last.twiml) # <<>> THEN ReadBack(last.twiml)
                        ELSE last.slotBefore
    /\ last.route \in ConfirmRoutes => pendingTask = <<>>

\* the greeting of a call finds the draft an abandoned call left and keeps it
C10_Witness ==
    /\ last.route = "/voice/inbound-speech"
    /\ last.slotBefore = <<DraftA>>
    /\ last.heardBefore = <<>>
    /\ pendingTask = <<DraftA>>
    /\ GathersFor(last.twiml, "/voice/process-speech")

----------------------------------------------------------------------------
(* C11 *)

\* the result of a call of getUpcomingTasks, as a set of tasks
Returned == {last.result[i] : i \in 1..Len(last.result)}

\* the status says the task is finished, in whatever case it is written
IsFinished(t) == ToLowerCase(t.status) \in {"completed", "done"}

\* C11: for every task list and every reference instant, getUpcomingTasks
\* returns no task whose status, compared case-insensitively, is "completed"
\* or "done", whatever its due date.
C11_FinishedTasksAreLeftOut ==
    last.route = "getUpcomingTasks" => \A t \in Returned : ~IsFinished(t)

\* a finished task due inside the window is left out of a list that is not empty
C11_Witness ==
    /\ last.route = "getUpcomingTasks"
    /\ last.clock = 0
    /\ last.days = WindowDays
    /\ Len(last.tasks) = 2
    /\ last.tasks[1].status = "DONE"
    /\ last.tasks[1].dueDate = "2025-02-09"
    /\ Len(last.result) = 1
    /\ last.result[1].task = "Pay rent"

----------------------------------------------------------------------------
(* C12 *)

\* the due date is empty or does not parse to a date
IsUndated(t) == t.dueDate = "" \/ DateParse(t.dueDate) = NaN

\* C12: for every task list, getUpcomingTasks returns no task whose due date
\* is empty or is a string that does not parse to a date, and on such inputs
\* it still returns a list, made of tasks of the input.
C12_UndatedTasksAreLeftOut ==
    last.route = "getUpcomingTasks"
    => (/\ \A t \in Returned : ~IsUndated(t)
        /\ Len(last.result) <= Len(last.tasks)
        /\ \A t \in Returned : \E i \in 1..Len(last.tasks) : last.tasks[i] = t)

\* a list of a task whose date does not parse and a task without a date, both
\* unfinished: the call returns, and returns neither
C12_Witness ==
    /\ last.route = "getUpcomingTasks"
    /\ last.clock = 0
    /\ last.days = WindowDays
    /\ Len(last.tasks) = 2
    /\ last.tasks[1].dueDate = "someday"
    /\ last.tasks[2].dueDate = ""
    /\ ~IsFinished(last.tasks[1])
    /\ ~IsFinished(last.tasks[2])
    /\ last.result = <<>>

----------------------------------------------------------------------------
(* C13 *)

\* the task is not finished and its due date d parses and lies in the closed
\* window: clock <= d <= clock + days
DueInWindow(t, clock, days) ==
    /\ ~IsFinished(t)
    /\ ~IsUndated(t)
    /\ clock <= DateParse(t.dueDate)
    /\ DateParse(t.dueDate) <= clock + days * TicksPerDay

\* C13: getUpcomingTasks returns exactly the not-finished tasks with a
\* parseable due date d such that referenceInstant <= d <= referenceInstant +
\* windowDays, each of them once: a task due at either end of the window is
\* included, a task due strictly before or strictly after it is not.
C13_ExactlyTheClosedWindow ==
    last.route = "getUpcomingTasks"
    => (/\ Returned = {last.tasks[i] : i \in {k \in 1..Len(last.tasks) :
                           DueInWindow(last.tasks[k], last.clock, last.days)}}
        /\ Cardinality(Returned) = Len(last.result))

\* the task due exactly windowDays after the reference instant is returned,
\* the task due a day later is not
C13_Witness ==
    /\ last.route = "getUpcomingTasks"
    /\ last.clock = 0
    /\ last.days = WindowDays
    /\ Len(last.tasks) = 2
    /\ DateParse(last.tasks[1].dueDate) = last.clock + WindowDays * TicksPerDay
    /\ DateParse(last.tasks[2].dueDate) = last.clock + (WindowDays + 1) * TicksPerDay
    /\ ~IsFinished(last.tasks[2])
    /\ Returned = {last.tasks[1]}

----------------------------------------------------------------------------
(* C14 *)

\* the rank the briefing order gives a priority: High first, Low last, Medium
\* and every other value between them
RankOf(t) ==
    IF ToLowerCase(t.priority) = "high" THEN 0
    ELSE IF ToLowerCase(t.priority) = "low" THEN 2
    ELSE 1

\* non-decreasing by rank and, within a rank, by due date
InBriefingOrder(ts) ==
    \A i, j \in 1..Len(ts) :
        i < j => \/ RankOf(ts[i]) < RankOf(ts[j])
                 \/ /\ RankOf(ts[i]) = RankOf(ts[j])
                    /\ DateParse(ts[i].dueDate) <= DateParse(ts[j].dueDate)

\* C14: the list getUpcomingTasks returns is ordered non-decreasing by
\* priority rank (High, then Medium and unrecognised values, then Low, in any
\* case) and within a rank non-decreasing by due date; the briefing speaks the
\* tasks in the order of that list, unchanged.
C14_BriefingOrder ==
    /\ last.route = "getUpcomingTasks" => InBriefingOrder(last.result)
    /\ (last.route = "/voice/morning-briefing" /\ ~HangsUp(last.twiml))
       => (/\ last.twiml[1].list # <<>>
           /\ InBriefingOrder(last.twiml[1].list)
           /\ last.twiml[1].list
                 = getUpcomingTasks(last.rowsBefore, TRUE, WindowDays, now))

\* the sheet lists a Low task and then a task without priority that is due
\* earlier; the briefing speaks them in the opposite order
C14_Witness ==
    /\ last.route = "/voice/morning-briefing"
    /\ last.rowsBefore = <<Row("Call bank", "LOW", "In Progress", "2025-02-13"),
                           Row("Send invoice", "", "", "2025-02-09")>>
    /\ Len(last.twiml[1].list) = 2
    /\ last.twiml[1].list[1].task = "Send invoice"
    /\ last.twiml[1].list[2].task = "Call bank"

----------------------------------------------------------------------------
(* C15 *)

\* the fixed message of a briefing without tasks
NoTasksTexts == {"You have no tasks due in the next 5 days"}

\* C15: a step of the morning trigger that computes an empty due-task list
\* places no outbound call and leaves the line idle, so a call is placed only
\* when the list at trigger time is non-empty; a briefing turn that computes an
\* empty list speaks the fixed "no tasks due" message and hangs up, with no
\* menu to add a task.
C15_EmptyListSkipsCallAndMenu ==
    [][/\ \A readOk \in BOOLEAN, createOk \in BOOLEAN :
            makeMorningCall("A", readOk, createOk)
            => IF Len(getUpcomingTasks(sheet, readOk, WindowDays, now)) = 0
               THEN ~last'.placed /\ doc' = doc /\ Idle("A")
               ELSE last'.placed = createOk
       /\ \A readOk \in BOOLEAN :
            (/\ MorningBriefing("A", readOk)
             /\ Len(getUpcomingTasks(sheet, readOk, WindowDays, now)) = 0)
            => (/\ Spoken(last'.twiml) = NoTasksTexts
                /\ HangsUp(last'.twiml)
                /\ \A i \in 1..Len(last'.twiml) : last'.twiml[i].verb # "Gather"
                /\ doc'["A"] = <<>>)]_vars

\* the trigger ran over a sheet that has rows, none of them due, and placed no
\* call
C15_Witness ==
    /\ last.route = "makeMorningCall"
    /\ last.rowsBefore # <<>>
    /\ getUpcomingTasks(last.rowsBefore, TRUE, WindowDays, now) = <<>>
    /\ ~last.placed
    /\ Idle("A")

----------------------------------------------------------------------------
(* C16 *)

\* C16: a failure of the store is a value, never an error raised into the
\* turn: when the read fails the task listing is the empty list, so the
\* due-task list is empty, the morning trigger places no call and the briefing
\* answers with its "no tasks due" response; when an append fails the append
\* returns false, the sheet is unchanged and the turn that called it still
\* answers with a complete response.
C16_StoreFailuresAreValues ==
    [][/\ \A readOk \in BOOLEAN, createOk \in BOOLEAN :
            (makeMorningCall("A", readOk, createOk) /\ ~readOk)
            => (/\ readTasks(sheet, readOk) = <<>>
                /\ getUpcomingTasks(sheet, readOk, WindowDays, now) = <<>>
                /\ ~last'.placed
                /\ doc' = doc)
       /\ \A readOk \in BOOLEAN :
            (MorningBriefing("A", readOk) /\ ~readOk)
            => (/\ Spoken(last'.twiml) = NoTasksTexts
                /\ HangsUp(last'.twiml)
                /\ sheet' = sheet)
       /\ (last'.added # <<>> /\ ~last'.added[1].ok)
          => (/\ Len(last'.added) = 1
              /\ sheet' = sheet
              /\ last'.route \in ConfirmRoutes
                 => (/\ last'.twiml # <<>>
                     /\ HangsUp(last'.twiml)
                     /\ Spoken(last'.twiml) # {}))]_vars

\* a briefing whose read failed over a sheet with a due task: it answers that
\* no task is due
C16_Witness ==
    /\ last.route = "/voice/morning-briefing"
    /\ getUpcomingTasks(last.rowsBefore, TRUE, WindowDays, now) # <<>>
    /\ Spoken(last.twiml) = NoTasksTexts
    /\ HangsUp(last.twiml)
    /\ sheet = last.rowsBefore

----------------------------------------------------------------------------
(* C17 *)

\* a well-formed JSON object starts at token i of the reply: the text of a
\* whole object, or an opening brace closed by the next token
WellFormedAt(text, i) ==
    \/ text[i] \in {"objA", "objB", "objErr"}
    \/ text[i] = "{" /\ i < Len(text) /\ text[i + 1] = "}"

\* the object that starts at token i
ObjectAt(text, i) ==
    CASE text[i] = "objA" -> DraftA
      [] text[i] = "objB" -> DraftB
      [] text[i] = "objErr" -> ErrorObj
      [] OTHER -> EmptyObj

\* where the first well-formed object of the reply starts; 0 if there is none
FirstObject(text) ==
    IF \E i \in 1..Len(text) : WellFormedAt(text, i)
    THEN CHOOSE i \in 1..Len(text) :
            /\ WellFormedAt(text, i)
            /\ \A k \in 1..(i - 1) : ~WellFormedAt(text, k)
    ELSE 0

\* C17: for every reply that contains a well-formed JSON object, whatever
\* precedes and follows it (text, further braces, a second object), the
\* extraction client returns that first object; it fails to parse only a reply
\* that contains no well-formed object.
C17_FirstObjectIsParsed ==
    (last.route = "extractTaskFromSpeech" /\ last.svc.ok)
    => IF FirstObject(last.svc.text) # 0
       THEN /\ last.result.ok
            /\ last.result.value = ObjectAt(last.svc.text, FirstObject(last.svc.text))
       ELSE ~last.result.ok

\* the token at which the first well-formed object of the reply ends
FirstObjectEnd(text) ==
    IF text[FirstObject(text)] = "{" THEN FirstObject(text) + 1 ELSE FirstObject(text)

\* what the client does return: the parse of the text from the first opening
\* brace of the reply to its last closing brace, which is the first object
\* only when no opening brace precedes it and no closing brace follows it
C17_ParsesFirstToLastBrace ==
    (last.route = "extractTaskFromSpeech" /\ last.svc.ok)
    => IF /\ FirstObject(last.svc.text) # 0
          /\ \A i \in 1..(FirstObject(last.svc.text) - 1) : ~Opens(last.svc.text[i])
          /\ \A i \in (FirstObjectEnd(last.svc.text) + 1)..Len(last.svc.text) :
                ~Closes(last.svc.text[i])
       THEN /\ last.result.ok
            /\ last.result.value = ObjectAt(last.svc.text, FirstObject(last.svc.text))
       ELSE ~last.result.ok

\* the reply is a task object followed by a sentence and a second object, and
\* the client fails
C17_Witness ==
    /\ last.route = "extractTaskFromSpeech"
    /\ last.svc.ok
    /\ last.svc.text = <<"objA", "txt", "objB">>
    /\ ~last.result.ok

----------------------------------------------------------------------------
(* C18 *)

FarewellTexts == {"Have a great day Jason!", "Alright, have a great day Jason!"}

\* the add-another turn spoke a farewell and ended the call
SaidFarewell ==
    /\ Spoken(last.twiml) # {}
    /\ Spoken(last.twiml) \subseteq FarewellTexts
    /\ HangsUp(last.twiml)
    /\ Idle(last.call)

\* while a call waits in AwaitingAddAnother the slot is empty, and without
\* input the verbs after the prompt speak a farewell and hang up
AddAnotherTimesOut ==
    \A c \in Calls :
        Awaited(c, "/voice/add-another")
        => (/\ pendingTask = <<>>
            /\ Len(doc[c]) = 3
            /\ doc[c][2].verb = "Say"
            /\ doc[c][2].text \in FarewellTexts
            /\ doc[c][3] = Hangup)

\* C18 as stated, with accept as the dialog defines it for a yes/no choice
\* (digit "1", or speech containing "yes" or "confirm"): in AwaitingAddAnother
\* an accept turn restarts the capture cycle with an empty slot, any other
\* turn or a timeout speaks a farewell and hangs up, and no row is appended.
C18_AcceptRestartsCapture ==
    /\ AddAnotherTimesOut
    /\ last.route = "/voice/add-another"
       => (/\ AppendedNothing
           /\ pendingTask = <<>>
           /\ IF Confirmed(last.turn) THEN BackToCapture(last.twiml) ELSE SaidFarewell)

\* C18 amended: in AwaitingAddAnother the accept turns are digit "1" and
\* speech containing "yes"; they restart the capture cycle with the slot
\* empty as confirm-task left it; every other turn, speech "confirm" included,
\* and a timeout speak a farewell and hang up; no row is appended.
C18_YesRestartsCapture ==
    /\ AddAnotherTimesOut
    /\ last.route = "/voice/add-another"
       => (/\ AppendedNothing
           /\ last.slotBefore = <<>>
           /\ pendingTask = <<>>
           /\ IF last.turn.digit = "1" \/ Includes(LowerSpeech(last.turn.speech), Yes)
              THEN /\ BackToCapture(last.twiml)
                   /\ doc[last.call] = <<Redirect("/voice/inbound-speech")>>
              ELSE SaidFarewell)

\* the caller answers "confirm" to the offer of another task and the call ends
C18_Witness ==
    /\ last.route = "/voice/add-another"
    /\ last.turn.speech = SayConfirm
    /\ SaidFarewell
    /\ Len(sheet) = 1
    /\ pendingTask = <<>>

----------------------------------------------------------------------------
(* C19 *)

\* call c is about to send a turn to a route that appends from the slot
AboutToConfirm(c) ==
    Awaited(c, "/voice/confirm-task") \/ Requested(c, "/voice/auto-confirm")

\* C19: with calls one after another and turns following the routes the
\* responses name, a call reaches confirm-task or auto-confirm only after a
\* successful extraction of the same call has put into the slot the draft it
\* read back, whatever an earlier call left there; so a row these routes
\* append is the draft most recently read back to the current caller, never a
\* draft of an earlier call.
C19_StaleDraftIsNeverSaved ==
    /\ \A c \in Calls :
          AboutToConfirm(c) => (heard[c] # <<>> /\ pendingTask = heard[c])
    /\ (last.route = "/voice/process-speech" /\ AboutToConfirm(last.call))
       => (ReadBack(last.twiml) # <<>> /\ pendingTask = ReadBack(last.twiml))
    /\ last.route \in ConfirmRoutes
       => (/\ last.heardBefore # <<>>
           /\ \A k \in 1..Len(last.added) : last.added[k].task = last.heardBefore[1]
           /\ sheet # last.rowsBefore
              => sheet = Append(last.rowsBefore,
                                Row(last.heardBefore[1].task, last.heardBefore[1].priority,
                                    last.heardBefore[1].status, last.heardBefore[1].dueDate)))

\* the slot held the draft of an abandoned call when this call's extraction
\* replaced it by the draft it read back
C19_Witness ==
    /\ last.route = "/voice/process-speech"
    /\ last.slotBefore = <<DraftA>>
    /\ last.heardBefore = <<>>
    /\ AboutToConfirm("A")
    /\ heard["A"] = <<DraftB>>
    /\ pendingTask = <<DraftB>>

----------------------------------------------------------------------------
(* C20 *)

\* C20: a confirm-task or auto-confirm turn that finds the slot empty calls
\* no append and leaves the sheet as it was, for every kind of turn; it ends
\* in a hang-up, or for a reject in the redirect to the capture prompt; an
\* explicit accept that finds the slot empty saves nothing.
C20_EmptySlotSavesNothing ==
    (last.route \in ConfirmRoutes /\ last.slotBefore = <<>>)
    => (/\ AppendedNothing
        /\ pendingTask = <<>>
        /\ IF last.route = "/voice/confirm-task" /\ Denied(last.turn)
           THEN RedirectsTo(last.twiml, "/voice/inbound-speech")
           ELSE HangsUp(last.twiml) /\ Idle(last.call))

\* the other call's confirmation emptied the slot; this call's explicit accept
\* finds it empty and hangs up without a word
C20_Witness ==
    /\ last.route = "/voice/confirm-task"
    /\ last.slotBefore = <<>>
    /\ last.turn.digit = "1"
    /\ last.twiml = <<Hangup>>
    /\ sheet = last.rowsBefore

----------------------------------------------------------------------------
(* C21 *)

\* the calendar day (0 for the first day of DayNames) an instant lies in
DayOf(clock) == clock \div TicksPerDay

\* the instant is later than 00:00 of its day
AfterMidnight(clock) == clock % TicksPerDay # 0

\* the task has a due date and it is the day d
DueOn(t, d) == ~IsUndated(t) /\ DayOf(DateParse(t.dueDate)) = d

\* C21: the due date is read as the midnight of its day and compared with the
\* current instant, so when the reference instant is later than 00:00 a task
\* due on the day of the reference instant is left out; a list computed
\* during the day, and the briefing that speaks it, holds only tasks due from
\* the next day up to windowDays ahead.
C21_DueTodayIsLeftOut ==
    /\ (last.route = "getUpcomingTasks" /\ AfterMidnight(last.clock))
       => \A t \in Returned :
             /\ ~DueOn(t, DayOf(last.clock))
             /\ \E d \in (DayOf(last.clock) + 1)..(DayOf(last.clock) + last.days) :
                   DueOn(t, d)
    /\ (last.route = "/voice/morning-briefing" /\ AfterMidnight(now))
       => \A i \in 1..Len(last.twiml[1].list) :
             /\ ~DueOn(last.twiml[1].list[i], DayOf(now))
             /\ \E d \in (DayOf(now) + 1)..(DayOf(now) + WindowDays) :
                   DueOn(last.twiml[1].list[i], d)

\* during the first day an unfinished task due that day and a task due the
\* next day are in the sheet; only the second is returned
C21_Witness ==
    /\ last.route = "getUpcomingTasks"
    /\ last.clock = 1
    /\ last.days = WindowDays
    /\ Len(last.tasks) = 2
    /\ last.tasks[1].task = "Pay rent"
    /\ DueOn(last.tasks[1], DayOf(last.clock))
    /\ ~IsFinished(last.tasks[1])
    /\ DueOn(last.tasks[2], DayOf(last.clock) + 1)
    /\ last.result = <<last.tasks[2]>>

----------------------------------------------------------------------------
(* C22 *)

\* the routes the server defines for the gateway
DefinedRoutes == {"/voice/morning-briefing", "/voice/morning-choice", "/voice/inbound",
                  "/voice/inbound-speech", "/voice/process-speech", "/voice/confirm-task",
                  "/voice/auto-confirm", "/voice/add-another", "/voice/process-task"}

\* a response is complete: it has verbs, every prompt and redirect names a
\* defined route, and its last verb hangs up or redirects, so that a prompt
\* has a fall-through; the one response that ends with its prompt is the
\* recording of morning-choice, after which the document ends and with it the
\* call
Complete(twiml) ==
    /\ twiml # <<>>
    /\ \A i \in 1..Len(twiml) :
          twiml[i].verb \in {"Gather", "Record", "Redirect"}
          => twiml[i].url \in DefinedRoutes
    /\ \/ twiml[Len(twiml)].verb \in {"Hangup", "Redirect"}
       \/ twiml[Len(twiml)] = Record("/voice/process-task", TRUE)

\* what the gateway does next for a call in progress is defined: it requests a
\* defined route, or waits for input it will post to a defined route, with the
\* verbs after the prompt as the fall-through
NextIsDefined(d) ==
    /\ Head(d).verb \in {"Redirect", "Gather", "Record"}
    /\ Head(d).url \in DefinedRoutes
    /\ Head(d).verb = "Redirect" => Len(d) = 1
    /\ Head(d).verb = "Gather" => (Len(d) > 1 /\ d[Len(d)].verb \in {"Hangup", "Redirect"})

\* call c is in AwaitingTaskSpeech: at the capture prompt or on its way to it
InCapture(c) ==
    Requested(c, "/voice/inbound-speech") \/ Awaited(c, "/voice/process-speech")

\* the request just served re-prompts: no transcript, a failed extraction, or
\* a reject of the draft
Reprompts(served) ==
    \/ served.route = "/voice/process-speech" /\ ReadBack(served.twiml) = <<>>
    \/ /\ served.route = "/voice/confirm-task"
       /\ Denied(served.turn)
       /\ ~(Confirmed(served.turn) /\ served.slotBefore # <<>>)

====
